---- MODULE Spec2Model ----
(***************************************************************************)
(* The person-directory service of nwt-school-back.                        *)
(*                                                                         *)
(*   Spec        the in-memory PeopleService                               *)
(*               (src/src/people/people.service.ts)                        *)
(*   SpecDao     the DAO-backed PeopleService (src/unnamed/part_003)       *)
(*   SpecHybrid  the PeopleService that reads through the DAO and writes   *)
(*               its in-memory list (src/unnamed/part_002)                 *)
(*   SpecCallers the in-memory PeopleService with several callers          *)
(*   SpecParse   _parseDate on its own                                     *)
(*                                                                         *)
(* JavaScript strings are sequences of one-character strings, so that      *)
(* toLowerCase and the template literal of _createId are computed.         *)
(* Timestamps are counted in minutes since the epoch (one unit = 60000 ms).*)
(***************************************************************************)
EXTENDS Integers, Sequences, FiniteSets, TLC

VARIABLES
    _people,  \* PeopleService._people: the in-memory list of records
    db,       \* the document collection behind PeopleDao
    clock,    \* what new Date().getTime() returns now
    tz,       \* the process's local time zone, minutes east of UTC
    last,     \* the call that ended last: operation, arguments, outcome
    calls     \* per caller, the Observable it holds and has not subscribed to

vars == <<_people, db, clock, tz, last, calls>>

---------------------------------------------------------------------------
(* Bounds *)

\* the clock ticks up to here
MaxClock == 2
\* Math.random() returns k / RandDen for k in 0 .. RandDen - 1
RandDen == 4
\* documents the collection holds at most
MaxDocs == 2
\* components a date text given to _parseDate has at most
MaxParts == 4

\* the time zones the process may run in, minutes east of UTC
TimeZones == {0}

---------------------------------------------------------------------------
(* Strings *)

LowerChar(c) ==
    CASE c = "A" -> "a" [] c = "B" -> "b" [] c = "D" -> "d" [] c = "E" -> "e"
      [] c = "J" -> "j" [] c = "N" -> "n" [] c = "O" -> "o" [] c = "R" -> "r"
      [] OTHER -> c

\* String.prototype.toLowerCase
toLowerCase(s) == [i \in DOMAIN s |-> LowerChar(s[i])]

Digit(n) ==
    CASE n = 0 -> "0" [] n = 1 -> "1" [] n = 2 -> "2" [] n = 3 -> "3"
      [] n = 4 -> "4" [] n = 5 -> "5" [] n = 6 -> "6" [] n = 7 -> "7"
      [] n = 8 -> "8" [] OTHER -> "9"

RECURSIVE NatToString(_)
\* the decimal numeral of a natural number, as `${n}` yields it
NatToString(n) ==
    IF n < 10 THEN <<Digit(n)>>
    ELSE Append(NatToString(n \div 10), Digit(n % 10))

---------------------------------------------------------------------------
(* Dates *)

\* a birthDate value: a number (NaN when nan), the string a number's
\* toString() yields ("numeral"), or a raw dd/mm/yyyy text ("datetext",
\* held as its components between the '/' separators)
Num(n) == [t |-> "number", nan |-> FALSE, v |-> n, txt |-> <<>>]
NaN == [t |-> "number", nan |-> TRUE, v |-> 0, txt |-> <<>>]
DateText(cs) == [t |-> "datetext", nan |-> FALSE, v |-> 0, txt |-> cs]
\* Number.prototype.toString
NumberToString(x) == [x EXCEPT !.t = "numeral"]

LeapsUpTo(y) == (y \div 4) - (y \div 100) + (y \div 400)
IsLeap(y) == (y % 4 = 0 /\ y % 100 # 0) \/ y % 400 = 0
DaysBeforeMonth(y, m) ==
    LET cum == <<0, 31, 59, 90, 120, 151, 181, 212, 243, 273, 304, 334>>
    IN cum[m] + (IF m > 2 /\ IsLeap(y) THEN 1 ELSE 0)
\* days from 1970-01-01 to day d of month m of year y; a day past the
\* month's end runs into the next month, as MakeDay does
DaysFromEpoch(y, m, d) ==
    365 * (y - 1970) + (LeapsUpTo(y - 1) - LeapsUpTo(1969))
        + DaysBeforeMonth(y, m) + (d - 1)

\* new Date("a/b/c").getTime() for three numerals: the legacy parser reads
\* year/month/day when a is no day number and month/day/year otherwise, takes
\* a two-digit year as 19yy or 20yy, and yields local midnight or NaN
DateGetTime(a, b, c, zone) ==
    LET ymd == ~(a >= 1 /\ a <= 31)
        y0 == IF ymd THEN a ELSE c
        m == IF ymd THEN b ELSE a
        d == IF ymd THEN c ELSE b
        y == IF y0 <= 49 THEN y0 + 2000 ELSE IF y0 <= 99 THEN y0 + 1900 ELSE y0
    IN IF m >= 1 /\ m <= 12 /\ d >= 1 /\ d <= 31
       THEN Num(DaysFromEpoch(y, m, d) * 1440 - zone)
       ELSE NaN

\* PeopleService._parseDate: split on '/', reassemble dates[2]/dates[1]/dates[0]
_parseDateIn(date, zone) ==
    IF Len(date.txt) >= 3
    THEN DateGetTime(date.txt[3], date.txt[2], date.txt[1], zone)
    ELSE NaN

_parseDate(date) == _parseDateIn(date, tz)

\* the literal '06/05/1985' of _addPerson
DefaultBirthDate == DateText(<<6, 5, 1985>>)
DefaultPhoto == "https://randomuser.me/api/portraits/lego/6.jpg"

---------------------------------------------------------------------------
(* Records and requests *)

Doe == <<"D", "o", "e">>
Roe == <<"R", "o", "e">>
John == <<"J", "o">>
john == <<"j", "o">>

Lastnames == {Doe, Roe}
Firstnames == {John, john}

\* a value a request leaves out (undefined)
NoName == <<>>
NoDate == DateText(<<>>)

\* a dd/mm/yyyy text a request can carry
PatchBirthDate == DateText(<<1, 2, 2000>>)

\* the records of data/people.ts: ids are lowercase hexadecimal texts,
\* name pairs are distinct, birth dates are dd/mm/yyyy texts
SeedA ==
    [id |-> <<"a">>, lastname |-> Doe, firstname |-> John,
     birthDate |-> DateText(<<20, 10, 1980>>), photo |-> "seed"]
PEOPLE == {<<>>, <<SeedA>>}

Request(h, l, f) ==
    [has |-> h,
     lastname |-> IF "lastname" \in h THEN l ELSE NoName,
     firstname |-> IF "firstname" \in h THEN f ELSE NoName,
     birthDate |-> IF "birthDate" \in h THEN PatchBirthDate ELSE NoDate]

\* CreatePersonDto: lastname and firstname are required
CreatePersonDto ==
    {Request({"lastname", "firstname"}, l, f) : l \in Lastnames, f \in Firstnames}

\* UpdatePersonDto: every field is optional; a birthDate comes alone or with
\* both names
UpdatePersonDto ==
    {Request(h, l, f) :
        h \in SUBSET {"lastname", "firstname"}, l \in Lastnames, f \in Firstnames}
    \cup {Request({"lastname", "firstname", "birthDate"}, l, f) :
            l \in Lastnames, f \in Firstnames}
    \cup {Request({"birthDate"}, NoName, NoName)}

\* the ids a caller asks for: the seed id, one differing from it by letter
\* case only (no record ever has it), and every id a create can make
IdInputs ==
    {<<"a">>, <<"A">>} \cup {NatToString(c) : c \in 1..MaxClock}

NoId == <<>>

Ids(list) == {list[i].id : i \in DOMAIN list}

---------------------------------------------------------------------------
(* The in-memory PeopleService *)

\* constructor: [].concat(PEOPLE).map(person => ({...person, birthDate: parsed}))
constructor(seed, zone) ==
    [i \in DOMAIN seed |->
        [seed[i] EXCEPT !.birthDate = _parseDateIn(seed[i].birthDate, zone)]]

\* create's predicate had it compared the names as they are written
createPredicateCaseSensitive(personFound, person) ==
    /\ personFound.lastname = person.lastname
    /\ personFound.firstname = person.firstname

\* create's predicate had it joined the two comparisons with ||
createPredicateEither(personFound, person) ==
    \/ toLowerCase(personFound.lastname) = toLowerCase(person.lastname)
    \/ toLowerCase(personFound.firstname) = toLowerCase(person.firstname)

\* the predicate of create's find
createPredicate(personFound, person) ==
    /\ toLowerCase(personFound.lastname) = toLowerCase(person.lastname)
    /\ toLowerCase(personFound.firstname) = toLowerCase(person.firstname)

\* update's predicate without the comparison of ids that leaves the target out
updatePredicateNoSelf(existingPerson, id, person) ==
    IF "lastname" \notin person.has THEN "throws"
    ELSE IF toLowerCase(existingPerson.lastname) # toLowerCase(person.lastname)
    THEN "false"
    ELSE IF "firstname" \notin person.has THEN "throws"
    ELSE IF toLowerCase(existingPerson.firstname) # toLowerCase(person.firstname)
    THEN "false"
    ELSE "true"

\* the predicate of update's find: "throws" when it reads toLowerCase of a
\* field the request leaves out, as && evaluates left to right
updatePredicate(existingPerson, id, person) ==
    IF "lastname" \notin person.has THEN "throws"
    ELSE IF toLowerCase(existingPerson.lastname) # toLowerCase(person.lastname)
    THEN "false"
    ELSE IF "firstname" \notin person.has THEN "throws"
    ELSE IF toLowerCase(existingPerson.firstname) # toLowerCase(person.firstname)
    THEN "false"
    ELSE IF toLowerCase(existingPerson.id) # toLowerCase(id) THEN "true"
    ELSE "false"

\* find(...) over from(this._people): the first element whose predicate does
\* not answer false decides: "found", "throws", or "none" at the list's end
updateFind(list, id, person) ==
    LET hit == {i \in DOMAIN list : updatePredicate(list[i], id, person) # "false"}
    IN IF hit = {} THEN "none"
       ELSE LET i == CHOOSE j \in hit : \A k \in hit : j <= k
            IN IF updatePredicate(list[i], id, person) = "true"
               THEN "found" ELSE "throws"

\* findIndex(person => person.id === id): 0 when there is none, else the
\* 1-based position of the first match
_findPeopleIndexOfList(list, id) ==
    LET hit == {i \in DOMAIN list : list[i].id = id}
    IN IF hit = {} THEN 0 ELSE CHOOSE j \in hit : \A k \in hit : j <= k

\* the record had update put the request in the target's place
ObjectAssignReplace(target, person) ==
    [target EXCEPT
        !.id = <<>>,
        !.lastname = IF "lastname" \in person.has THEN person.lastname ELSE @,
        !.firstname = IF "firstname" \in person.has THEN person.firstname ELSE @,
        !.birthDate = IF "birthDate" \in person.has THEN person.birthDate ELSE @]

\* Object.assign(target, person): the properties the request carries
ObjectAssign(target, person) ==
    [target EXCEPT
        !.lastname = IF "lastname" \in person.has THEN person.lastname ELSE @,
        !.firstname = IF "firstname" \in person.has THEN person.firstname ELSE @,
        !.birthDate = IF "birthDate" \in person.has THEN person.birthDate ELSE @]

\* _createId: `${new Date().getTime()}`
_createId(now) == NatToString(now)

\* the record _addPerson builds and appends
_addPerson(person, now, zone) ==
    [id |-> _createId(now),
     lastname |-> person.lastname,
     firstname |-> person.firstname,
     birthDate |-> NumberToString(_parseDateIn(DefaultBirthDate, zone)),
     photo |-> DefaultPhoto]

\* Math.round(Math.random() * n) for Math.random() = k / RandDen:
\* floor(k * n / RandDen + 1/2)
randomIndex(k, n) == (2 * k * n + RandDen) \div (2 * RandDen)

\* splice had it no delete count: splice(index) takes the rest of the list
spliceRest(list, index) == [i \in 1..(index - 1) |-> list[i]]

\* this._people.splice(index, 1)
splice(list, index) ==
    [i \in 1..(Len(list) - 1) |-> IF i < index THEN list[i] ELSE list[i + 1]]

(* How each call ends, and the list it leaves *)

findAllOutcome(list) == IF Len(list) > 0 THEN "ok" ELSE "none"

\* what findAll emits: the list itself, or undefined when it is empty
findAllValue(list) ==
    IF Len(list) > 0
    THEN [defined |-> TRUE, people |-> list]
    ELSE [defined |-> FALSE, people |-> <<>>]

findRandomOutcome(list, k) ==
    IF randomIndex(k, Len(list)) < Len(list) THEN "ok" ELSE "none"

findOneOutcome(list, id) ==
    IF \E i \in DOMAIN list : list[i].id = id THEN "ok" ELSE "NotFound"

createOutcome(list, person) ==
    IF \E i \in DOMAIN list : createPredicate(list[i], person)
    THEN "Conflict" ELSE "ok"

createList(list, person, now, zone) ==
    IF createOutcome(list, person) = "ok"
    THEN Append(list, _addPerson(person, now, zone))
    ELSE list

updateOutcome(list, id, person) ==
    LET found == updateFind(list, id, person)
    IN IF found = "throws" THEN "TypeError"
       ELSE IF found = "found" THEN "Conflict"
       ELSE IF _findPeopleIndexOfList(list, id) = 0 THEN "NotFound"
       ELSE "ok"

\* update had it merged the request before it looked for a conflict
updateListMergeFirst(list, id, person) ==
    LET index == _findPeopleIndexOfList(list, id)
    IN IF index = 0 \/ updateOutcome(list, id, person) = "TypeError" THEN list
       ELSE [list EXCEPT ![index] = ObjectAssign(list[index], person)]

updateList(list, id, person) ==
    IF updateOutcome(list, id, person) = "ok"
    THEN LET index == _findPeopleIndexOfList(list, id)
         IN [list EXCEPT ![index] = ObjectAssign(list[index], person)]
    ELSE list

deleteOutcome(list, id) ==
    IF _findPeopleIndexOfList(list, id) = 0 THEN "NotFound" ELSE "ok"

deleteList(list, id) ==
    IF deleteOutcome(list, id) = "ok"
    THEN splice(list, _findPeopleIndexOfList(list, id))
    ELSE list

Result(op, id, outcome) == [op |-> op, id |-> id, outcome |-> outcome]

\* the callers that may hold an Observable of the service at the same time
Callers == {1, 2}
\* a caller that holds none
Idle == [op |-> "idle"]
NoCalls == [c \in Callers |-> Idle]

Init ==
    /\ tz \in TimeZones
    /\ \E seed \in PEOPLE : _people = constructor(seed, tz)
    /\ db = <<>>
    /\ clock = 1
    /\ last = Result("constructor", NoId, "ok")
    /\ calls = NoCalls

\* the clock advances between calls
Tick ==
    /\ clock < MaxClock
    /\ clock' = clock + 1
    /\ UNCHANGED <<_people, db, tz, last, calls>>

\* findAll had it taken the records off the list as it read them
findAllShift ==
    /\ _people' = IF _people = <<>> THEN <<>> ELSE Tail(_people)
    /\ last' = Result("findAll", NoId, findAllOutcome(_people))
    /\ UNCHANGED <<db, clock, tz, calls>>

findAll ==
    /\ last' = Result("findAll", NoId, findAllOutcome(_people))
    /\ UNCHANGED <<_people, db, clock, tz, calls>>

findRandom ==
    \E k \in 0..(RandDen - 1) :
        /\ last' = Result("findRandom", NoId, findRandomOutcome(_people, k))
        /\ UNCHANGED <<_people, db, clock, tz, calls>>

findOne ==
    \E id \in IdInputs :
        /\ last' = Result("findOne", id, findOneOutcome(_people, id))
        /\ UNCHANGED <<_people, db, clock, tz, calls>>

create ==
    \E person \in CreatePersonDto :
        /\ _people' = createList(_people, person, clock, tz)
        /\ last' = Result("create", NoId, createOutcome(_people, person))
        /\ UNCHANGED <<db, clock, tz, calls>>

update ==
    \E id \in IdInputs, person \in UpdatePersonDto :
        /\ _people' = updateList(_people, id, person)
        /\ last' = Result("update", id, updateOutcome(_people, id, person))
        /\ UNCHANGED <<db, clock, tz, calls>>

delete ==
    \E id \in IdInputs :
        /\ _people' = deleteList(_people, id)
        /\ last' = Result("delete", id, deleteOutcome(_people, id))
        /\ UNCHANGED <<db, clock, tz, calls>>

Next ==
    \/ Tick
    \/ findAll
    \/ findRandom
    \/ findOne
    \/ create
    \/ update
    \/ delete

Spec == Init /\ [][Next]_vars

---------------------------------------------------------------------------
(* Several callers of the in-memory service. create and delete return a    *)
(* cold Observable: the call evaluates from(this._people) and so takes a   *)
(* reference to the array the list is then; find, findIndex, mergeMap and  *)
(* tap run when the caller subscribes, all in one synchronous run.         *)

\* the array a held Observable iterates: this._people itself as long as no
\* create has put a copy in its place, else the array as it was left
captured(call) == IF call.live THEN _people ELSE call.source

\* this._people = this._people.concat(...): the Observables that held the
\* array old now hold an array that is the list no more
replaced(held, old) ==
    [c \in Callers |->
        IF held[c].op # "idle" /\ held[c].live
        THEN [held[c] EXCEPT !.live = FALSE, !.source = old]
        ELSE held[c]]

\* the requests and ids the callers use
CallerDto == {Request({"lastname", "firstname"}, l, John) : l \in Lastnames}
CallerIds == {SeedA.id, _createId(1)}

InitCallers ==
    /\ tz \in TimeZones
    /\ \E seed \in PEOPLE : _people = constructor(seed, tz)
    /\ db = <<>>
    /\ clock = 1
    /\ last = Result("constructor", NoId, "ok")
    /\ calls = NoCalls

\* create(person): from(this._people).pipe(...) is built, nothing runs yet
createCall(c) ==
    \E person \in CallerDto :
        /\ calls[c].op = "idle"
        /\ calls' = [calls EXCEPT ![c] =
              [op |-> "create", id |-> NoId, person |-> person,
               live |-> TRUE, source |-> <<>>]]
        /\ UNCHANGED <<_people, db, clock, tz, last>>

\* delete(id): _findPeopleIndexOfList(id) builds from(this._people).pipe(...)
deleteCall(c) ==
    \E id \in CallerIds :
        /\ calls[c].op = "idle"
        /\ calls' = [calls EXCEPT ![c] =
              [op |-> "delete", id |-> id, person |-> Request({}, NoName, NoName),
               live |-> TRUE, source |-> <<>>]]
        /\ UNCHANGED <<_people, db, clock, tz, last>>

\* the subscription to create's Observable: find runs over the array the
\* Observable holds, _addPerson concatenates to the list as it is now
createSubscribe(c) ==
    LET call == calls[c]
        outcome == createOutcome(captured(call), call.person)
    IN /\ call.op = "create"
       /\ _people' = IF outcome = "ok"
                     THEN Append(_people, _addPerson(call.person, clock, tz))
                     ELSE _people
       /\ calls' = IF outcome = "ok"
                   THEN [replaced(calls, _people) EXCEPT ![c] = Idle]
                   ELSE [calls EXCEPT ![c] = Idle]
       /\ last' = Result("create", NoId, outcome)
       /\ UNCHANGED <<db, clock, tz>>

\* the subscription to delete's Observable: findIndex runs over the array the
\* Observable holds, splice(index, 1) takes from the list as it is now and
\* takes nothing when the index is past its end
deleteSubscribe(c) ==
    LET call == calls[c]
        index == _findPeopleIndexOfList(captured(call), call.id)
    IN /\ call.op = "delete"
       /\ _people' = IF index = 0 \/ index > Len(_people)
                     THEN _people
                     ELSE splice(_people, index)
       /\ calls' = [calls EXCEPT ![c] = Idle]
       /\ last' = Result("delete", call.id,
                         IF index = 0 THEN "NotFound" ELSE "ok")
       /\ UNCHANGED <<db, clock, tz>>

NextCallers ==
    \/ \E c \in Callers : createCall(c)
    \/ \E c \in Callers : deleteCall(c)
    \/ \E c \in Callers : createSubscribe(c)
    \/ \E c \in Callers : deleteSubscribe(c)

SpecCallers == InitCallers /\ [][NextCallers]_vars

---------------------------------------------------------------------------
(* The DAO-backed PeopleService: reads, create and update go to the        *)
(* document store through PeopleDao, delete works on the in-memory list.   *)

\* the ids the store gives to the documents it saves, in the order it saves
\* them: lowercase hexadecimal texts, never given twice
ObjectIds == <<<<"b">>, <<"c">>, <<"d">>, <<"e">>>>

\* the document of the seed record, as the collection holds it
DocA(zone) ==
    [SeedA EXCEPT
        !.birthDate = NumberToString(_parseDateIn(SeedA.birthDate, zone))]

\* the collections the service may find when it starts
DbSeeds(zone) == {<<>>, <<DocA(zone)>>}

\* Model.findById: 0 when no document has the id, else its position
findById(docs, id) ==
    LET hit == {i \in DOMAIN docs : docs[i].id = id}
    IN IF hit = {} THEN 0 ELSE CHOOSE j \in hit : \A k \in hit : j <= k

\* the collection's unique index on (lastname, firstname): whether a document
\* other than the one at position except holds the pair
DuplicateKey(docs, except, person) ==
    \E i \in DOMAIN docs :
        /\ i # except
        /\ docs[i].lastname = person.lastname
        /\ docs[i].firstname = person.firstname

\* _prepareNewPerson: the request with the default birthDate and photo
_prepareNewPerson(person, zone) ==
    [lastname |-> person.lastname,
     firstname |-> person.firstname,
     birthDate |-> NumberToString(_parseDateIn(DefaultBirthDate, zone)),
     photo |-> DefaultPhoto]

\* new Model(person).save(): the document the store appends
save(docs, prepared) ==
    [id |-> ObjectIds[Len(docs) + 1],
     lastname |-> prepared.lastname,
     firstname |-> prepared.firstname,
     birthDate |-> prepared.birthDate,
     photo |-> prepared.photo]

\* findOne: catchError maps a store failure to UnprocessableEntity, a null
\* document is NotFound
findOneDaoOutcome(docs, id, fails) ==
    IF fails THEN "UnprocessableEntity"
    ELSE IF findById(docs, id) = 0 THEN "NotFound"
    ELSE "ok"

\* create had its catchError no test of the error code
createDaoOutcomeAnyError(docs, person, fails) ==
    IF fails \/ DuplicateKey(docs, 0, person) THEN "UnprocessableEntity"
    ELSE "ok"

\* create: error code 11000 is Conflict, any other error UnprocessableEntity
createDaoOutcome(docs, person, fails) ==
    IF fails THEN "UnprocessableEntity"
    ELSE IF DuplicateKey(docs, 0, person) THEN "Conflict"
    ELSE "ok"

\* update: error code 11000 is Conflict, any other error UnprocessableEntity,
\* a null document is NotFound
updateDaoOutcome(docs, id, person, fails) ==
    LET index == findById(docs, id)
    IN IF fails THEN "UnprocessableEntity"
       ELSE IF index = 0 THEN "NotFound"
       ELSE IF DuplicateKey(docs, index, ObjectAssign(docs[index], person))
       THEN "Conflict"
       ELSE "ok"

\* findAll: the array dao.find() yields passes filter(Boolean) also when it is
\* empty; a store failure is not caught
findAllDaoOutcome(docs, fails) ==
    IF fails THEN "Error"
    ELSE IF docs = <<>> THEN "empty"
    ELSE "ok"

\* findRandom: an empty array is filtered out and defaultIfEmpty answers
\* undefined; past the last index PersonEntity is built from undefined
findRandomDaoOutcome(docs, k, fails) ==
    IF fails THEN "Error"
    ELSE IF docs = <<>> THEN "none"
    ELSE IF randomIndex(k, Len(docs)) < Len(docs) THEN "ok"
    ELSE "emptyEntity"

InitDao ==
    /\ tz \in TimeZones
    /\ \E seed \in PEOPLE : _people = constructor(seed, tz)
    /\ db \in DbSeeds(tz)
    /\ clock = 1
    /\ last = Result("constructor", NoId, "ok")
    /\ calls = NoCalls

findAllDao ==
    \E fails \in BOOLEAN :
        /\ last' = Result("findAll", NoId, findAllDaoOutcome(db, fails))
        /\ UNCHANGED <<_people, db, clock, tz, calls>>

findRandomDao ==
    \E k \in 0..(RandDen - 1), fails \in BOOLEAN :
        /\ last' = Result("findRandom", NoId, findRandomDaoOutcome(db, k, fails))
        /\ UNCHANGED <<_people, db, clock, tz, calls>>

findOneDao ==
    \E id \in IdInputs \cup Ids(db), fails \in BOOLEAN :
        /\ last' = Result("findOne", id, findOneDaoOutcome(db, id, fails))
        /\ UNCHANGED <<_people, db, clock, tz, calls>>

createDao ==
    \E person \in CreatePersonDto, fails \in BOOLEAN :
        LET outcome == createDaoOutcome(db, person, fails)
        IN /\ outcome = "ok" => Len(db) < MaxDocs
           /\ db' = IF outcome = "ok"
                    THEN Append(db, save(db, _prepareNewPerson(person, tz)))
                    ELSE db
           /\ last' = Result("create", NoId, outcome)
           /\ UNCHANGED <<_people, clock, tz, calls>>

updateDao ==
    \E id \in IdInputs \cup Ids(db), person \in UpdatePersonDto, fails \in BOOLEAN :
        LET outcome == updateDaoOutcome(db, id, person, fails)
            index == findById(db, id)
        IN /\ db' = IF outcome = "ok"
                    THEN [db EXCEPT ![index] = ObjectAssign(db[index], person)]
                    ELSE db
           /\ last' = Result("update", id, outcome)
           /\ UNCHANGED <<_people, clock, tz, calls>>

deleteDao ==
    \E id \in IdInputs \cup Ids(db) :
        /\ _people' = deleteList(_people, id)
        /\ last' = Result("delete", id, deleteOutcome(_people, id))
        /\ UNCHANGED <<db, clock, tz, calls>>

NextDao ==
    \/ findAllDao
    \/ findRandomDao
    \/ findOneDao
    \/ createDao
    \/ updateDao
    \/ deleteDao

SpecDao == InitDao /\ [][NextDao]_vars

---------------------------------------------------------------------------
(* The PeopleService of src/unnamed/part_002: findAll, findRandom and      *)
(* findOne read the collection through PeopleDao with the code of the      *)
(* DAO-backed service, create, update and delete work on the in-memory     *)
(* list with the code of the in-memory service.                            *)

NextHybrid ==
    \/ Tick
    \/ findAllDao
    \/ findRandomDao
    \/ findOneDao
    \/ create
    \/ update
    \/ delete

SpecHybrid == InitDao /\ [][NextHybrid]_vars

---------------------------------------------------------------------------
(* _parseDate on its own: a text is drawn, then parsed. *)

\* the numerals between the '/' separators of the texts drawn
DateParts == {5, 6, 13, 31, 1985}

\* the texts drawn: date.split('/') yields three components or more
DateInputs ==
    {DateText(cs) : cs \in UNION {[1..n -> DateParts] : n \in 3..MaxParts}}

\* the local time zones the process may run in, minutes east of UTC
ParseZones == {-300, 0, 120}

InitParse ==
    /\ tz \in ParseZones
    /\ _people = <<>>
    /\ db = <<>>
    /\ clock = 1
    /\ calls = NoCalls
    /\ \E date \in DateInputs :
          last = [op |-> "input", date |-> date, outcome |-> "pending",
                  value |-> NaN]

\* the call of _parseDate: it has no throw, it returns what getTime() yields
parseDate ==
    /\ last.op = "input"
    /\ last' = [op |-> "_parseDate", date |-> last.date, outcome |-> "ok",
                value |-> _parseDate(last.date)]
    /\ UNCHANGED <<_people, db, clock, tz, calls>>

NextParse == parseDate

SpecParse == InitParse /\ [][NextParse]_vars

---------------------------------------------------------------------------
(* Properties of the in-memory service *)

\* a step of Next that is a call of the service and not a tick of the clock
Called == clock' = clock

\* two letters that differ at most by case
SameLetter(c, d) ==
    \/ c = d
    \/ {c, d} \in {{"A", "a"}, {"D", "d"}, {"E", "e"}, {"J", "j"},
                   {"N", "n"}, {"O", "o"}, {"R", "r"}}

\* two texts that are equal when letter case is ignored
EqualIgnoringCase(s, t) ==
    /\ Len(s) = Len(t)
    /\ \A i \in DOMAIN s : SameLetter(s[i], t[i])

\* two name pairs that are equal when letter case is ignored
SamePair(r, q) ==
    /\ EqualIgnoringCase(r.lastname, q.lastname)
    /\ EqualIgnoringCase(r.firstname, q.firstname)

HasBothNames(person) == {"lastname", "firstname"} \subseteq person.has

\* C1: the list never holds two records with different ids whose
\* (lastname, firstname) pairs are equal under case-insensitive comparison,
\* whatever creates, updates and deletes were called
C1_Uniqueness ==
    \A i, j \in DOMAIN _people :
        _people[i].id # _people[j].id => ~SamePair(_people[i], _people[j])

\* C1 witness: two records are stored and the last call was an update that
\* went through and left the seed record with new letters in its name
C1_Witness ==
    /\ Len(_people) = 2
    /\ last.op = "update" /\ last.outcome = "ok" /\ last.id = <<"a">>
    /\ _people[1].id = <<"a">> /\ _people[1].firstname = john
    /\ _people[2].id # <<"a">>

\* C2: no two records of the list have the same id
C2_IdsUnique ==
    \A i, j \in DOMAIN _people : i # j => _people[i].id # _people[j].id

\* C3: findOne, update and delete report NotFound exactly for the ids no
\* record has, whatever the patch; no other operation reports NotFound
C3_NotFoundSymmetry ==
    [][Called =>
        /\ last'.op \in {"findOne", "update", "delete"} =>
              (last'.outcome = "NotFound" <=> last'.id \notin Ids(_people))
        /\ last'.op \in {"findAll", "findRandom", "create"} =>
              last'.outcome # "NotFound"]_vars

\* C4: a create or update that ends with Conflict leaves the list as it was:
\* same records, same field values, same order
C4_ConflictShortCircuit ==
    [][(Called /\ last'.outcome = "Conflict") => _people' = _people]_vars

\* C4 witness: an update ended with Conflict while two records were stored
C4_Witness ==
    /\ last.op = "update" /\ last.outcome = "Conflict"
    /\ Len(_people) = 2

\* C6: findRandom answers the 'none' marker only when the list is empty: the
\* index it computes is in range for every value of the random source
C6_RandomInRange ==
    last.op = "findRandom" =>
        /\ last.outcome = "none" <=> _people = <<>>
        /\ \A k \in 0..(RandDen - 1) :
              _people # <<>> =>
                  randomIndex(k, Len(_people)) \in 0..(Len(_people) - 1)

\* C7: an update changes no record's id, neither the target's nor another's,
\* and after an update that went through findOne still finds the target
C7_IdStable ==
    [][(Called /\ last'.op = "update") =>
        /\ Len(_people') = Len(_people)
        /\ \A i \in DOMAIN _people : _people'[i].id = _people[i].id
        /\ last'.outcome = "ok" => findOneOutcome(_people', last'.id) = "ok"]_vars

\* C7 witness: a record made by create was updated and took the patch's
\* birthDate
C7_Witness ==
    /\ last.op = "update" /\ last.outcome = "ok" /\ last.id = <<"1">>
    /\ \E i \in DOMAIN _people :
          /\ _people[i].id = <<"1">>
          /\ _people[i].birthDate = PatchBirthDate

\* C8: every stored birthDate is a number, and a finite one
C8_BirthDateValid ==
    \A i \in DOMAIN _people :
        /\ _people[i].birthDate.t = "number"
        /\ ~_people[i].birthDate.nan

\* C9: an update of a stored record with a patch whose name pair is the
\* record's own pair, letter case ignored, goes through when no other record
\* has that pair
C9_UpdateKeepsOwnPair ==
    \A i \in DOMAIN _people : \A person \in UpdatePersonDto :
        ( /\ HasBothNames(person)
          /\ SamePair(_people[i], person)
          /\ \A j \in DOMAIN _people : j # i => ~SamePair(_people[j], person) )
        => updateOutcome(_people, _people[i].id, person) = "ok"

\* C9 witness: with a second record stored, the seed record was updated with
\* its own name in other letters
C9_Witness ==
    /\ Len(_people) = 2
    /\ last.op = "update" /\ last.outcome = "ok" /\ last.id = <<"a">>
    /\ _people[1].id = <<"a">>
    /\ _people[1].lastname = Doe /\ _people[1].firstname = john
    /\ _people[1].birthDate = PatchBirthDate

\* C10: create ends with Conflict exactly when a stored record has the
\* request's lastname and firstname, letter case ignored; otherwise it goes
\* through and the list grows by exactly one record
C10_CreateConflict ==
    \A person \in CreatePersonDto :
        LET taken == \E i \in DOMAIN _people : SamePair(_people[i], person)
        IN /\ createOutcome(_people, person) = "Conflict" <=> taken
           /\ ~taken =>
                /\ createOutcome(_people, person) = "ok"
                /\ Len(createList(_people, person, clock, tz)) = Len(_people) + 1

\* C10 witness: a create ended with Conflict, and a request that writes a
\* stored name in other letters is one that ends so
C10_Witness ==
    /\ last.op = "create" /\ last.outcome = "Conflict"
    /\ \E i \in DOMAIN _people : \E person \in CreatePersonDto :
          /\ person.firstname # _people[i].firstname
          /\ SamePair(_people[i], person)
          /\ createOutcome(_people, person) = "Conflict"

\* the ways a call may end: a value, the 'none' marker, or one of the four
\* kinds of failure
TypedOutcomes ==
    {"ok", "none", "NotFound", "Conflict", "ValidationFailed", "StoreUnavailable"}

\* C11: every call ends with a value or with one of NotFound, Conflict,
\* ValidationFailed, StoreUnavailable, never with a failure of no kind, and a
\* call that ends with a failure leaves the list as it was
C11_TypedOutcomes ==
    [][Called =>
        /\ last'.outcome \in TypedOutcomes
        /\ last'.outcome \notin {"ok", "none"} => _people' = _people]_vars

\* C12: findAll leaves the list as it was, so that the value it emits is the
\* value the next findAll emits: a findAll that follows a findAll ends as the
\* first did, with the same records in the same order or with undefined both
C12_FindAllIdempotent ==
    [][(Called /\ last'.op = "findAll") =>
        /\ _people' = _people
        /\ findAllValue(_people') = findAllValue(_people)
        /\ last'.outcome = findAllOutcome(_people')
        /\ last.op = "findAll" => last'.outcome = last.outcome]_vars

\* C12 witness: findAll was called with two records stored and emitted them
C12_Witness ==
    /\ last.op = "findAll" /\ last.outcome = "ok"
    /\ Len(_people) = 2
    /\ findAllValue(_people).people = _people

\* the fields a request may name
PatchFields == {"lastname", "firstname", "birthDate"}

\* C19: an update that goes through gives the first record of the id the
\* values of the fields the patch names and changes nothing else; a delete
\* that goes through takes that one record out and keeps the others in their
\* order; a create that goes through adds one record at the end and keeps the
\* others; an update or delete that ends with NotFound changes nothing
C19_FrameEffect ==
    /\ \A id \in IdInputs : \A person \in UpdatePersonDto :
          LET index == _findPeopleIndexOfList(_people, id)
              after == updateList(_people, id, person)
          IN /\ updateOutcome(_people, id, person) = "NotFound" =>
                   after = _people
             /\ updateOutcome(_people, id, person) = "ok" =>
                   /\ Len(after) = Len(_people)
                   /\ \A j \in DOMAIN _people : j # index => after[j] = _people[j]
                   /\ after[index].id = id
                   /\ after[index].photo = _people[index].photo
                   /\ \A field \in PatchFields :
                         after[index][field] =
                             IF field \in person.has THEN person[field]
                             ELSE _people[index][field]
    /\ \A id \in IdInputs :
          LET index == _findPeopleIndexOfList(_people, id)
              after == deleteList(_people, id)
          IN /\ deleteOutcome(_people, id) = "NotFound" => after = _people
             /\ deleteOutcome(_people, id) = "ok" =>
                   /\ _people[index].id = id
                   /\ Len(after) = Len(_people) - 1
                   /\ \A j \in DOMAIN after :
                         after[j] = IF j < index THEN _people[j]
                                    ELSE _people[j + 1]
    /\ \A person \in CreatePersonDto :
          LET after == createList(_people, person, clock, tz)
          IN createOutcome(_people, person) = "ok" =>
                /\ Len(after) = Len(_people) + 1
                /\ \A j \in DOMAIN _people : after[j] = _people[j]
                /\ after[Len(after)].lastname = person.lastname
                /\ after[Len(after)].firstname = person.firstname

\* C19 witness: a delete took the first of two records out and left the
\* record a create made, which an update with a patch of the two names, and
\* no birthDate, can change
C19_Witness ==
    /\ last.op = "delete" /\ last.outcome = "ok" /\ last.id = SeedA.id
    /\ Len(_people) = 1
    /\ _people[1].id # SeedA.id
    /\ \E person \in UpdatePersonDto :
          /\ person.has = {"lastname", "firstname"}
          /\ person.firstname # _people[1].firstname
          /\ updateOutcome(_people, _people[1].id, person) = "ok"

---------------------------------------------------------------------------
(* Properties of _parseDate *)

DaysInMonth(y, m) ==
    IF m = 2 THEN (IF IsLeap(y) THEN 29 ELSE 28)
    ELSE IF m \in {4, 6, 9, 11} THEN 30 ELSE 31

\* dd/mm/yyyy names a day of the calendar, the year written with four digits
ValidCalendarDate(d, m, y) ==
    /\ y \in 1000..9999
    /\ m \in 1..12
    /\ d \in 1..DaysInMonth(y, m)

\* C13: for a text dd/mm/yyyy of exactly three components that name a day of
\* the calendar _parseDate returns the timestamp of that day at 00:00 UTC;
\* for every other text it fails with InvalidDate and returns nothing
C13_ParseDate ==
    last.op = "_parseDate" =>
        LET cs == last.date.txt
        IN IF Len(cs) = 3 /\ ValidCalendarDate(cs[1], cs[2], cs[3])
           THEN /\ last.outcome = "ok"
                /\ last.value = Num(DaysFromEpoch(cs[3], cs[2], cs[1]) * 1440)
           ELSE last.outcome = "InvalidDate"

---------------------------------------------------------------------------
(* Properties of the DAO-backed service *)

\* C5: a delete of a stored id goes through, and the findOne or delete of the
\* same id that follows it reports NotFound: delete and findOne act on the
\* same set of records
C5_DeleteThenGet ==
    [][Called =>
        /\ (last'.op = "delete" /\ last'.id \in Ids(db)) => last'.outcome = "ok"
        /\ ( /\ last.op = "delete" /\ last.outcome = "ok"
             /\ last'.op \in {"findOne", "delete"} /\ last'.id = last.id
             /\ last'.outcome # "UnprocessableEntity" )
           => last'.outcome = "NotFound"]_vars

\* C14: when the scan of the collection answers, findAll emits undefined
\* exactly when the collection is empty and the documents otherwise, never an
\* empty array
C14_EmptyIsNone ==
    (last.op = "findAll" /\ last.outcome # "Error") =>
        /\ last.outcome \in {"ok", "none"}
        /\ last.outcome = "none" <=> db = <<>>

\* the store answers save(person) with the duplicate-key error
SaveDuplicateKey(person) == DuplicateKey(db, 0, person)

\* the store answers findByIdAndUpdate(id, person) with the duplicate-key error
UpdateDuplicateKey(id, person) ==
    LET index == findById(db, id)
    IN /\ index # 0
       /\ DuplicateKey(db, index, ObjectAssign(db[index], person))

\* C16: a create whose save the store answers with the duplicate-key error,
\* and an update whose findByIdAndUpdate it answers so, end with Conflict,
\* with no other kind of failure and not with a value
C16_DuplicateKeyIsConflict ==
    /\ \A person \in CreatePersonDto :
          SaveDuplicateKey(person) =>
              createDaoOutcome(db, person, FALSE) = "Conflict"
    /\ \A id \in IdInputs \cup Ids(db) : \A person \in UpdatePersonDto :
          UpdateDuplicateKey(id, person) =>
              updateDaoOutcome(db, id, person, FALSE) = "Conflict"

\* C16 witness: two documents are stored, the last call was an update the
\* store answered with the duplicate-key error, and a create of a stored
\* pair is answered so too
C16_Witness ==
    /\ Len(db) = 2
    /\ last.op = "update" /\ last.outcome = "Conflict"
    /\ \E person \in UpdatePersonDto : UpdateDuplicateKey(last.id, person)
    /\ \E person \in CreatePersonDto : SaveDuplicateKey(person)

\* C17: a findOne, create or update whose store call fails with an error
\* that is no duplicate-key error ends with StoreUnavailable: it ends with a
\* value, NotFound, Conflict or StoreUnavailable, never with the
\* unprocessable-entity failure that stands for ValidationFailed
C17_StoreUnavailable ==
    last.op \in {"findOne", "create", "update"} =>
        last.outcome \in {"ok", "NotFound", "Conflict", "StoreUnavailable"}

---------------------------------------------------------------------------
(* Properties of the service of src/unnamed/part_002 *)

\* C18: after a create that went through, findOne of the id of the record it
\* made finds a record with that id and the record's name pair, and findAll
\* emits records: create and the reads act on the same records
C18_CreateObservable ==
    (last.op = "create" /\ last.outcome = "ok") =>
        LET r == _people[Len(_people)]
        IN /\ findOneDaoOutcome(db, r.id, FALSE) = "ok"
           /\ db[findById(db, r.id)].lastname = r.lastname
           /\ db[findById(db, r.id)].firstname = r.firstname
           /\ findAllDaoOutcome(db, FALSE) = "ok"

---------------------------------------------------------------------------
(* Properties of the in-memory service under several callers *)

\* C15: the creates and deletes of several callers leave a list that the
\* same calls leave in some order one after the other; every such order of
\* creates and deletes keeps one record per name pair, so the list never
\* holds the same pair, letter case ignored, at two positions
C15_SerializableMutations ==
    \A i, j \in DOMAIN _people :
        i # j => ~SamePair(_people[i], _people[j])

====
